---- MODULE Spec2Model ----
(***************************************************************************)
(* The static-site build script of fedrev-website (src/unnamed/part_001):  *)
(* CSS bundling with content hash, asset copy, placeholder injection into  *)
(* HTML partials, page assembly and minification, sitemap, robots, link    *)
(* validation.  The script is one sequential batch run; pc is its position.*)
(*                                                                         *)
(* Strings are modelled as sequences of tokens.  A CSS token is a string:  *)
(* one character, or one whole "@import '...';" statement (the unit the    *)
(* regular expression of inlineCSS matches).  An HTML token is a record    *)
(* with a field k (its kind).                                              *)
(***************************************************************************)
EXTENDS Integers, Sequences, FiniteSets, TLC

VARIABLES
  pc,            \* position of the build script
  cssFs,         \* src/assets/css: resolved path -> file content
  seen,          \* the Set of inlineCSS
  stack,         \* call stack of inlineCSS: frames [file, pos, out]
  cssWarnings,   \* console.warn lines of inlineCSS: resolved paths
  cssSteps,      \* number of steps inlineCSS has taken (history)
  bundledCss,    \* const bundledCss of compileCSSBundleWithHash
  hashedCssFile, \* const hashedCssFile of the build steps
  publicCss,     \* public/css: file name -> content
  ran,           \* build steps completed so far (history)
  copyJSON,      \* the parsed copy.json
  partials,      \* const partials: name -> HTML text
  injectPos,     \* the statement injectDynamicContent is at
  srcDir,        \* src: entry name -> content (of the page shells)
  publicAssets,  \* public/js, public/img, public/icons: the copied files
  publicRoot,    \* the pages of the output root: name -> HTML text
  sitemapXml,    \* content of public/sitemap.xml
  robotsTxt,     \* content of public/robots.txt
  linkWarnings,  \* console.warn lines of validateLinks
  previousCss,   \* the CSS sources of the run before this one, if any
  previousName,  \* the hashed file name that run returned
  navOpen,       \* navToggle.js: .nav has the class "open"
  toggleOpen,    \* .nav-toggle has the class "open"
  ariaExpanded,  \* the aria-expanded attribute of .nav-toggle
  timers,        \* hrefs of the setTimeout callbacks not yet run, in order
  location,      \* window.location.href
  page,          \* the document that is loaded
  event          \* the event the last handler was called with

cssVars == <<cssFs, seen, stack, cssWarnings, cssSteps, bundledCss>>
htmlVars == <<copyJSON, partials, injectPos, srcDir, publicAssets, publicRoot,
              sitemapXml, robotsTxt, linkWarnings>>
runVars == <<previousCss, previousName>>
navVars == <<navOpen, toggleOpen, ariaExpanded, timers, location, page, event>>
vars == <<pc, cssFs, seen, stack, cssWarnings, cssSteps, bundledCss,
          hashedCssFile, publicCss, ran, copyJSON, partials, injectPos,
          srcDir, publicAssets, publicRoot, sitemapXml, robotsTxt,
          linkWarnings, previousCss, previousName, navOpen, toggleOpen,
          ariaExpanded, timers, location, page, event>>

(***************************************************************************)
(* Bounds of the model.                                                    *)
(***************************************************************************)
MaxTokens == 2   \* tokens (characters or @import statements) per CSS file
StackCap == 4    \* deepest inlineCSS recursion the model follows
MaxList == 2     \* entries of a list of copy.json
MaxMarkers == 2  \* occurrences of a repeated placeholder in a partial
MaxRefs == 1     \* /css/bundle.css references in the shell, head and footer
MaxLinks == 2    \* href/src attributes of a page shell
MaxBytes == 3    \* characters of main.css when the build is run twice
MaxTimers == 2   \* setTimeout callbacks of navToggle.js waiting at a time

(***************************************************************************)
(* Helpers on sequences.                                                   *)
(***************************************************************************)
SeqsUpTo(S, n) == UNION {[1..k -> S] : k \in 0..n}

RECURSIVE Count(_, _)
Count(x, s) == IF s = <<>> THEN 0
               ELSE (IF Head(s) = x THEN 1 ELSE 0) + Count(x, Tail(s))

(***************************************************************************)
(* CSS sources.  All files live in src/assets/css, so path.dirname of the  *)
(* importing file is always that directory.                                *)
(***************************************************************************)
CssPaths == {"css/main.css", "css/a.css", "css/c.css"}
InputPath == "css/main.css"

ImportTokens == {"@import 'main.css';", "@import 'a.css';",
                 "@import './a.css';", "@import 'c.css';"}

\* /@import\s+["'](.+?)["'];/ matches the token.
IsImport(tok) == tok \in ImportTokens

\* The capture group (.+?) of the @import regular expression.
ImportPath(tok) ==
  CASE tok = "@import 'main.css';" -> "main.css"
    [] tok = "@import 'a.css';"    -> "a.css"
    [] tok = "@import './a.css';"  -> "./a.css"
    [] tok = "@import 'c.css';"    -> "c.css"

\* path.resolve(path.dirname(filePath), importPath)
ResolvePath(filePath, importPath) ==
  CASE importPath = "main.css" -> "css/main.css"
    [] importPath = "a.css"    -> "css/a.css"
    [] importPath = "./a.css"  -> "css/a.css"
    [] importPath = "c.css"    -> "css/c.css"

\* fs.existsSync on a CSS path
ExistsSyncAlways(fs, p) == TRUE

ExistsSync(fs, p) == p \in DOMAIN fs

\* seen.has(filePath)
SeenHasNever(s, filePath) == FALSE

SeenHas(s, filePath) == filePath \in s

\* seen.add(filePath)
SeenAddNothing(s, filePath) == s

SeenAdd(s, filePath) == s \cup {filePath}

\* The text a file contributes of its own: one letter per file.
TextOf(p) == CASE p = "css/main.css" -> "m"
               [] p = "css/a.css"    -> "a"
               [] p = "css/c.css"    -> "c"

Missing == <<"ENOENT">>

\* What a file may hold: its letter and @import statements (a.css names
\* its siblings plainly, main.css also with "./").
FileContents(p) ==
  SeqsUpTo({TextOf(p)} \cup (IF p = InputPath THEN ImportTokens
                             ELSE ImportTokens \ {"@import './a.css';"}),
           MaxTokens)

MakeFs(m, a, c) ==
  LET pick(p) == CASE p = "css/main.css" -> m
                   [] p = "css/a.css"    -> a
                   [] p = "css/c.css"    -> c
  IN [p \in {q \in CssPaths : pick(q) # Missing} |-> pick(p)]

\* The CSS trees the bundler is run on: the entry file may be absent, a.css
\* is any file, c.css is a leaf or absent.
CssInputs ==
  {MakeFs(m, a, c) : m \in FileContents("css/main.css") \cup {Missing},
                     a \in FileContents("css/a.css"),
                     c \in {<<"c">>, Missing}}

\* One tree that takes inlineCSS through every branch.
DefaultCss ==
  MakeFs(<<"@import 'a.css';", "@import 'c.css';">>,
         <<"@import 'a.css';", "a">>, Missing)

(***************************************************************************)
(* minifyCSS, on sequences of characters.                                  *)
(***************************************************************************)
IsSpace(ch) == ch \in {" ", "\n"}
IsSymbol(ch) == ch \in {"{", "}", ":", ";", ","}

\* Index of the first "*/" at or after position i, 0 when there is none.
RECURSIVE CommentEnd(_, _)
CommentEnd(s, i) ==
  IF i + 1 > Len(s) THEN 0
  ELSE IF s[i] = "*" /\ s[i + 1] = "/" THEN i
  ELSE CommentEnd(s, i + 1)

\* .replace(/\/\*[\s\S]*?\*\//g, "")
RECURSIVE RemoveComments(_)
RemoveComments(s) ==
  IF Len(s) < 2 THEN s
  ELSE IF s[1] = "/" /\ s[2] = "*" /\ CommentEnd(s, 3) # 0
       THEN RemoveComments(SubSeq(s, CommentEnd(s, 3) + 2, Len(s)))
       ELSE <<Head(s)>> \o RemoveComments(Tail(s))

\* .replace(/\s+/g, " ")
RECURSIVE CollapseSpace(_)
CollapseSpace(s) ==
  IF s = <<>> THEN s
  ELSE IF IsSpace(Head(s))
       THEN IF Len(s) >= 2 /\ IsSpace(s[2])
            THEN CollapseSpace(Tail(s))
            ELSE <<" ">> \o CollapseSpace(Tail(s))
       ELSE <<Head(s)>> \o CollapseSpace(Tail(s))

\* .replace(/\s*([{}:;,])\s*/g, "$1"): every run of spaces next to a symbol
\* goes.  prev is the character kept last.
RECURSIVE SkipSpace(_)
SkipSpace(s) == IF s # <<>> /\ IsSpace(Head(s)) THEN SkipSpace(Tail(s)) ELSE s

RECURSIVE TightenSymbols(_)
TightenSymbols(s) ==
  IF s = <<>> THEN s
  ELSE IF IsSymbol(Head(s))
       THEN <<Head(s)>> \o TightenSymbols(SkipSpace(Tail(s)))
  ELSE IF IsSpace(Head(s)) /\ SkipSpace(s) # <<>> /\ IsSymbol(Head(SkipSpace(s)))
       THEN TightenSymbols(SkipSpace(s))
  ELSE <<Head(s)>> \o TightenSymbols(Tail(s))

\* .replace(/;}/g, "}")
RECURSIVE DropLastSemicolon(_)
DropLastSemicolon(s) ==
  IF s = <<>> THEN s
  ELSE IF Len(s) >= 2 /\ s[1] = ";" /\ s[2] = "}"
       THEN <<"}">> \o DropLastSemicolon(SubSeq(s, 3, Len(s)))
       ELSE <<Head(s)>> \o DropLastSemicolon(Tail(s))

\* .trim()
RECURSIVE TrimEnd(_)
TrimEnd(s) == IF s # <<>> /\ IsSpace(s[Len(s)])
              THEN TrimEnd(SubSeq(s, 1, Len(s) - 1)) ELSE s

Trim(s) == TrimEnd(SkipSpace(s))

minifyCSS(css) ==
  Trim(DropLastSemicolon(TightenSymbols(CollapseSpace(RemoveComments(css)))))

\* crypto md5(content), first 8 hex digits: modelled as collision-free, the
\* digest stands for the content it was taken of.
getContentHash(content) == [md5 |-> content]

\* Lines 109-112 of compileCSSBundleWithHash: `bundle.${hash}.css`
HashedNameOfRaw(bundled) == [bundle |-> getContentHash(bundled)]

HashedName(bundled) == [bundle |-> getContentHash(minifyCSS(bundled))]

(***************************************************************************)
(* HTML text.  Tokens: mk a double-curly placeholder (of: the partial file *)
(* it was written in), cm a marker comment, txt static markup, val a text  *)
(* of copy.json, chr one character, attr an href/src attribute with its    *)
(* value, csslink the href of the hashed bundle, ws white space between    *)
(* tags.                                                                   *)
(***************************************************************************)
Mk(n, o) == [k |-> "mk", name |-> n, of |-> o]
Cm(n) == [k |-> "cm", name |-> n]
Txt(o, i) == [k |-> "txt", of |-> o, i |-> i]
Val(f, i) == [k |-> "val", f |-> f, i |-> i]
Chr(c) == [k |-> "chr", c |-> c]
Attr(l) == [k |-> "attr", link |-> l]
CssLink(n) == [k |-> "csslink", name |-> n]
Ws == [k |-> "ws"]

IsMarker(tok, name) == tok.k \in {"mk", "cm"} /\ tok.name = name

\* The replacement text of String.prototype.replace: "$$" stands for "$" and
\* "$&" for the matched text; any other "$" is literal.
RECURSIVE GetSubstitution(_, _)
GetSubstitution(repl, matched) ==
  IF repl = <<>> THEN <<>>
  ELSE IF Len(repl) >= 2 /\ repl[1] = Chr("$") /\ repl[2] = Chr("$")
       THEN <<Chr("$")>> \o GetSubstitution(SubSeq(repl, 3, Len(repl)), matched)
  ELSE IF Len(repl) >= 2 /\ repl[1] = Chr("$") /\ repl[2] = Chr("&")
       THEN <<matched>> \o GetSubstitution(SubSeq(repl, 3, Len(repl)), matched)
  ELSE <<Head(repl)>> \o GetSubstitution(Tail(repl), matched)

\* Index of the first occurrence of the marker in s, 0 when there is none.
RECURSIVE IndexFrom(_, _, _)
IndexFrom(s, name, i) ==
  IF i > Len(s) THEN 0
  ELSE IF IsMarker(s[i], name) THEN i
  ELSE IndexFrom(s, name, i + 1)

IndexOf(s, name) == IndexFrom(s, name, 1)

\* s.replace("<marker>", repl): the first occurrence only.
Replace(s, name, repl) ==
  LET i == IndexOf(s, name)
  IN IF i = 0 THEN s
     ELSE SubSeq(s, 1, i - 1) \o GetSubstitution(repl, s[i])
          \o SubSeq(s, i + 1, Len(s))

\* s.replace(/<marker>/g, repl): every occurrence.
RECURSIVE ReplaceAll(_, _, _)
ReplaceAll(s, name, repl) ==
  IF s = <<>> THEN <<>>
  ELSE (IF IsMarker(Head(s), name) THEN GetSubstitution(repl, Head(s))
        ELSE <<Head(s)>>) \o ReplaceAll(Tail(s), name, repl)

(***************************************************************************)
(* injectDynamicContent, one pass per statement.  P is the partials object,*)
(* J is copyJSON.                                                          *)
(***************************************************************************)
partialNames == <<"head", "headerHTML", "heroSection", "invoices",
                  "aboutSection", "steps", "servicesSection", "services",
                  "contactSection", "contactForm", "footerHTML">>

\* copyJSON.header.nav.forEach(...)
RECURSIVE NavLoop(_, _)
NavLoop(frag, nav) ==
  IF nav = <<>> THEN frag
  ELSE NavLoop(Replace(Replace(frag, "{{LABEL}}", Head(nav).label),
                       "{{DESTINATION}}", Head(nav).link), Tail(nav))

\* copyJSON.invoices.amounts.forEach(...)
RECURSIVE AmountLoop(_, _)
AmountLoop(frag, amounts) ==
  IF amounts = <<>> THEN frag
  ELSE AmountLoop(Replace(frag, "{{AMOUNT}}", Head(amounts)), Tail(amounts))

\* copyJSON.about.steps.forEach(...) and copyJSON.services.list.forEach(...)
RECURSIVE TitleLoop(_, _)
TitleLoop(frag, list) ==
  IF list = <<>> THEN frag
  ELSE TitleLoop(Replace(Replace(frag, "{{TITLE}}", Head(list).title),
                         "{{DESCRIPTION}}", Head(list).description),
                 Tail(list))

TitleAndDescription(frag, section) ==
  Replace(Replace(frag, "{{TITLE}}", section.title),
          "{{DESCRIPTION}}", section.description)

PassNav(P, J) ==
  [P EXCEPT !.headerHTML = NavLoop(@, J.header.nav)]

PassHero(P, J) ==
  [P EXCEPT !.heroSection =
     Replace(TitleAndDescription(@, J.hero), "{{CTA}}", J.hero.cta)]

PassInvoices(P, J) ==
  [P EXCEPT !.invoices =
     AmountLoop(ReplaceAll(@, "{{LABEL}}", J.invoices.label),
                J.invoices.amounts)]

EmbedInvoices(P, J) ==
  [P EXCEPT !.heroSection = Replace(@, "<!-- INVOICES -->", P.invoices)]

PassAbout(P, J) ==
  [P EXCEPT !.aboutSection = TitleAndDescription(@, J.about)]

PassSteps(P, J) ==
  [P EXCEPT !.steps = TitleLoop(@, J.about.steps)]

EmbedSteps(P, J) ==
  [P EXCEPT !.aboutSection = Replace(@, "<!-- STEPS -->", P.steps)]

PassServicesSection(P, J) ==
  [P EXCEPT !.servicesSection = TitleAndDescription(@, J.services)]

PassServices(P, J) ==
  [P EXCEPT !.services = TitleLoop(@, J.services.list)]

EmbedServices(P, J) ==
  [P EXCEPT !.servicesSection = Replace(@, "<!-- SERVICES -->", P.services)]

PassContact(P, J) ==
  [P EXCEPT !.contactSection =
     Replace(TitleAndDescription(@, J.contact), "<!-- CONTACT FORM -->",
             P.contactForm)]

InjectLength == 11

\* The same statements with the about section's own pass moved behind the
\* embedding of the steps.
InjectPassAboutLast(i, P, J) ==
  CASE i = 1  -> PassNav(P, J)
    [] i = 2  -> PassHero(P, J)
    [] i = 3  -> PassInvoices(P, J)
    [] i = 4  -> EmbedInvoices(P, J)
    [] i = 5  -> PassSteps(P, J)
    [] i = 6  -> EmbedSteps(P, J)
    [] i = 7  -> PassAbout(P, J)
    [] i = 8  -> PassServicesSection(P, J)
    [] i = 9  -> PassServices(P, J)
    [] i = 10 -> EmbedServices(P, J)
    [] i = 11 -> PassContact(P, J)

\* The i-th statement of injectDynamicContent.
InjectPass(i, P, J) ==
  CASE i = 1  -> PassNav(P, J)
    [] i = 2  -> PassHero(P, J)
    [] i = 3  -> PassInvoices(P, J)
    [] i = 4  -> EmbedInvoices(P, J)
    [] i = 5  -> PassAbout(P, J)
    [] i = 6  -> PassSteps(P, J)
    [] i = 7  -> EmbedSteps(P, J)
    [] i = 8  -> PassServicesSection(P, J)
    [] i = 9  -> PassServices(P, J)
    [] i = 10 -> EmbedServices(P, J)
    [] i = 11 -> PassContact(P, J)

(***************************************************************************)
(* Step 4: the pages.                                                      *)
(***************************************************************************)
CssRef == <<"/", "css", "/", "bundle.css">>

\* path.extname of the names the model uses (".html" is a dot file: "").
ExtName(n) ==
  CASE n \in {"index.html", "about.html"} -> ".html"
    [] n \in {"notes.txt", "robots.txt"}  -> ".txt"
    [] n = "sitemap.xml"                  -> ".xml"
    [] OTHER                              -> ""

\* fs.readdirSync: the names in order.
Rank(n) ==
  CASE n = ".html" -> 1 [] n = "about.html" -> 2 [] n = "assets" -> 3
    [] n = "css" -> 4 [] n = "icons" -> 5 [] n = "img" -> 6
    [] n = "index.html" -> 7 [] n = "js" -> 8 [] n = "notes.txt" -> 9
    [] n = "partials" -> 10 [] n = "robots.txt" -> 11
    [] n = "sitemap.xml" -> 12

RECURSIVE ReadDir(_)
ReadDir(S) ==
  IF S = {} THEN <<>>
  ELSE LET first == CHOOSE n \in S : \A o \in S : Rank(n) <= Rank(o)
       IN <<first>> \o ReadDir(S \ {first})

RECURSIVE Filter(_, _)
Filter(s, ext) ==
  IF s = <<>> THEN <<>>
  ELSE (IF ExtName(Head(s)) = ext THEN <<Head(s)>> ELSE <<>>)
       \o Filter(Tail(s), ext)

\* .replace(/\/css\/bundle\.css/, `/css/${hashedCssFile}`): the first
\* occurrence only.
RECURSIVE RewriteCss(_, _)
RewriteCss(html, hashed) ==
  IF html = <<>> THEN <<>>
  ELSE IF Head(html) = Attr(CssRef) THEN <<CssLink(hashed)>> \o Tail(html)
  ELSE <<Head(html)>> \o RewriteCss(Tail(html), hashed)

\* link.replace(/\/public\//g, "/") inside one attribute value
RECURSIVE StripPublicLink(_)
StripPublicLink(l) ==
  IF l = <<>> THEN <<>>
  ELSE IF Len(l) >= 3 /\ l[1] = "/" /\ l[2] = "public" /\ l[3] = "/"
       THEN StripPublicLink(SubSeq(l, 3, Len(l)))
       ELSE <<Head(l)>> \o StripPublicLink(Tail(l))

\* html.replace(/\/public\//g, "/")
StripPublic(html) ==
  [i \in 1..Len(html) |->
     IF html[i].k = "attr" THEN Attr(StripPublicLink(html[i].link))
     ELSE html[i]]

\* minifyHTML: the comments and the white space between tags go.
RECURSIVE minifyHTML(_)
minifyHTML(html) ==
  IF html = <<>> THEN <<>>
  ELSE (IF Head(html).k \in {"cm", "ws"} THEN <<>> ELSE <<Head(html)>>)
       \o minifyHTML(Tail(html))

\* The body of the forEach of step 4, for one page shell.
BuildPage(html, P, hashed) ==
  LET h1 == Replace(html, "<!-- HEAD -->", P.head)
      h2 == RewriteCss(h1, hashed)
      h3 == Replace(h2, "<!-- HEADER -->", P.headerHTML)
      h4 == Replace(h3, "<!-- HERO SECTION -->", P.heroSection)
      h5 == Replace(h4, "<!-- ABOUT SECTION -->", P.aboutSection)
      h6 == Replace(h5, "<!-- SERVICES SECTION -->", P.servicesSection)
      h7 == Replace(h6, "<!-- CONTACT SECTION -->", P.contactSection)
      h8 == Replace(h7, "<!-- FOOTER -->", P.footerHTML)
  IN minifyHTML(StripPublic(h8))

(***************************************************************************)
(* Step 5: the sitemap.                                                    *)
(***************************************************************************)
BASE_URL == "https://fedrev.co"

\* The route without the special case of the index page.
RouteNoIndex(file) == <<"/", file>>

\* const route = file === "index.html" ? "/" : `/${file}`
Route(file) == IF file = "index.html" THEN <<"/">> ELSE <<"/", file>>

SitemapXml(htmlFiles) ==
  [i \in 1..Len(htmlFiles) |->
     [loc |-> [base |-> BASE_URL, route |-> Route(htmlFiles[i])]]]

(***************************************************************************)
(* Step 7: validateLinks.                                                  *)
(***************************************************************************)
AssetTargets == {<<"/", "js", "/", "index.js">>, <<"/", "img", "/", "logo.png">>,
                 <<"/", "icons", "/", "favicon.ico">>}

\* The part of s before the first ch: s.split(ch)[0]
RECURSIVE Split0(_, _)
Split0(s, ch) ==
  IF s = <<>> \/ Head(s) = ch THEN <<>>
  ELSE <<Head(s)>> \o Split0(Tail(s), ch)

\* /(?:href|src)=["']([^"':#?][^"']*)["']/ matches the attribute
RegexMatches(link) == link # <<>> /\ link[1] \notin {":", "#", "?"}

\* link.startsWith("http") || link.startsWith("//")
IsExternal(link) == link[1] = "http" \/ link[1] = "//"

TargetPath(link) ==
  LET t == Split0(Split0(link, "?"), "#")
  IN IF t # <<>> /\ t[Len(t)] \in {"/", "//"}
     THEN Append(t, "index.html") ELSE t

\* fs.existsSync(path.join(publicDir, targetPath)) against the output tree:
\* root holds the names of the files of the output root, assets the copied
\* files.
ExistsInPublic(target, root, assets) ==
  \/ target = <<>>
  \/ \E f \in root : target \in {<<f>>, <<"/", f>>}
  \/ target \in assets

\* The while loop over one file: the warnings it adds to acc.  A return in
\* the forEach callback ends the scan of the file.
RECURSIVE ScanFile(_, _, _, _, _, _)
ScanFile(content, i, file, root, assets, css) ==
  IF i > Len(content) THEN <<>>
  ELSE LET tok == content[i]
           rest == ScanFile(content, i + 1, file, root, assets, css)
       IN IF tok.k = "csslink"
          THEN (IF tok.name \in css THEN <<>> ELSE <<[file |-> file, tok |-> tok]>>)
               \o rest
          ELSE IF tok.k # "attr" \/ ~RegexMatches(tok.link) THEN rest
          ELSE IF IsExternal(tok.link) THEN <<>>
          ELSE (IF ExistsInPublic(TargetPath(tok.link), root, assets) THEN <<>>
                ELSE <<[file |-> file, tok |-> tok]>>) \o rest

\* hashedCssFile before compileCSSBundleWithHash has returned.
NoName == [bundle |-> [md5 |-> <<"none">>]]
EmptyFn == [x \in {} |-> x]

(***************************************************************************)
(* Step 1: compileCSSBundleWithHash("main.css"), with inlineCSS unfolded   *)
(* into its steps.  A frame is one activation of inlineCSS: the file, the  *)
(* position of content.replace in its content, and the text built so far.  *)
(***************************************************************************)
Top == stack[Len(stack)]
TopContent == cssFs[Top.file]
AtToken == pc = "inline" /\ stack # <<>> /\ Top.pos <= Len(TopContent)
TopToken == TopContent[Top.pos]
TopResolved == ResolvePath(Top.file, ImportPath(TopToken))
Advance(frame) == [frame EXCEPT !.pos = @ + 1]
ReplaceTop(frame) == [stack EXCEPT ![Len(stack)] = frame]

\* inlineCSS(inputPath): the Set is new, so the entry is never seen; the
\* read of a missing entry file throws and ends the run.
CompileStart ==
  /\ pc = "css"
  /\ seen' = SeenAdd({}, InputPath)
  /\ cssSteps' = cssSteps + 1
  /\ IF InputPath \in DOMAIN cssFs
     THEN /\ stack' = <<[file |-> InputPath, pos |-> 1, out |-> <<>>]>>
          /\ pc' = "inline"
     ELSE /\ stack' = <<>>
          /\ pc' = "aborted"
  /\ UNCHANGED <<navVars, runVars, cssFs, cssWarnings, bundledCss, hashedCssFile, publicCss, ran,
                 htmlVars>>

\* Text between two @import statements is copied by content.replace.
InlineText ==
  /\ AtToken
  /\ TopToken \notin ImportTokens
  /\ stack' = ReplaceTop(Advance([Top EXCEPT !.out = Append(@, TopToken)]))
  /\ cssSteps' = cssSteps + 1
  /\ UNCHANGED <<navVars, runVars, pc, cssFs, seen, cssWarnings, bundledCss, hashedCssFile,
                 publicCss, ran, htmlVars>>

\* if (!fs.existsSync(resolvedPath)) { console.warn(...); return ""; }
InlineImportMissing ==
  /\ AtToken
  /\ TopToken \in ImportTokens
  /\ ~ExistsSync(cssFs, TopResolved)
  /\ cssWarnings' = Append(cssWarnings, TopResolved)
  /\ stack' = ReplaceTop(Advance(Top))
  /\ cssSteps' = cssSteps + 1
  /\ UNCHANGED <<navVars, runVars, pc, cssFs, seen, bundledCss, hashedCssFile, publicCss, ran,
                 htmlVars>>

\* return inlineCSS(resolvedPath, seen) when seen.has(resolvedPath): ""
InlineImportSeen ==
  /\ AtToken
  /\ TopToken \in ImportTokens
  /\ ExistsSync(cssFs, TopResolved)
  /\ SeenHas(seen, TopResolved)
  /\ stack' = ReplaceTop(Advance(Top))
  /\ cssSteps' = cssSteps + 1
  /\ UNCHANGED <<navVars, runVars, pc, cssFs, seen, cssWarnings, bundledCss, hashedCssFile,
                 publicCss, ran, htmlVars>>

\* return inlineCSS(resolvedPath, seen) otherwise: seen.add, read the file
\* (a read that fails throws), and replace in its content.
InlineImportRecurse ==
  /\ AtToken
  /\ TopToken \in ImportTokens
  /\ ExistsSync(cssFs, TopResolved)
  /\ ~SeenHas(seen, TopResolved)
  /\ Len(stack) < StackCap
  /\ seen' = SeenAdd(seen, TopResolved)
  /\ cssSteps' = cssSteps + 1
  /\ IF TopResolved \in DOMAIN cssFs
     THEN /\ stack' = Append(stack, [file |-> TopResolved, pos |-> 1,
                                     out |-> <<>>])
          /\ pc' = pc
     ELSE /\ stack' = <<>>
          /\ pc' = "aborted"
  /\ UNCHANGED <<navVars, runVars, cssFs, cssWarnings, bundledCss, hashedCssFile, publicCss, ran,
                 htmlVars>>

\* content.replace is done in an imported file: its result replaces the
\* @import statement in the importing file.
InlineReturn ==
  /\ pc = "inline"
  /\ Len(stack) > 1
  /\ Top.pos > Len(TopContent)
  /\ LET caller == stack[Len(stack) - 1]
     IN stack' = Append(SubSeq(stack, 1, Len(stack) - 2),
                        Advance([caller EXCEPT !.out = @ \o Top.out]))
  /\ cssSteps' = cssSteps + 1
  /\ UNCHANGED <<navVars, runVars, pc, cssFs, seen, cssWarnings, bundledCss, hashedCssFile,
                 publicCss, ran, htmlVars>>

\* content.replace is done in the entry file: inlineCSS(inputPath) returns.
InlineDone == pc = "inline" /\ Len(stack) = 1 /\ Top.pos > Len(TopContent)

\* inlineCSS(inputPath) has returned: minify, hash, write, return the name.
CompileFinish ==
  /\ InlineDone
  /\ bundledCss' = Top.out
  /\ hashedCssFile' = HashedName(Top.out)
  /\ publicCss' = [n \in {HashedName(Top.out)} |-> minifyCSS(Top.out)]
  /\ stack' = <<>>
  /\ cssSteps' = cssSteps + 1
  /\ ran' = Append(ran, "css")
  /\ pc' = "copy"
  /\ UNCHANGED <<navVars, runVars, cssFs, seen, cssWarnings, htmlVars>>

\* A step inside inlineCSS.
InlineNext ==
  \/ InlineText
  \/ InlineImportMissing
  \/ InlineImportSeen
  \/ InlineImportRecurse
  \/ InlineReturn

(***************************************************************************)
(* Steps 2 to 8.                                                           *)
(***************************************************************************)
Range(s) == {s[i] : i \in DOMAIN s}

RECURSIVE Flatten(_)
Flatten(ss) == IF ss = <<>> THEN <<>> ELSE Head(ss) \o Flatten(Tail(ss))

\* The entries of the output root.
PublicEntries ==
  DOMAIN publicRoot
    \cup (IF DOMAIN publicCss # {} THEN {"css"} ELSE {})
    \cup (IF publicAssets # {} THEN {"js", "img", "icons"} ELSE {})
    \cup (IF "sitemap" \in Range(ran) THEN {"sitemap.xml"} ELSE {})
    \cup (IF "robots" \in Range(ran) THEN {"robots.txt"} ELSE {})

\* 2. copyFolder of js, img, icons
CopyAssets ==
  /\ pc = "copy"
  /\ publicAssets' = AssetTargets
  /\ ran' = Append(ran, "copy")
  /\ pc' = "inject"
  /\ UNCHANGED <<navVars, runVars, cssVars, hashedCssFile, publicCss, copyJSON, partials,
                 injectPos, srcDir, publicRoot, sitemapXml, robotsTxt,
                 linkWarnings>>

\* 3. injectDynamicContent(), statement by statement
InjectStep ==
  /\ pc = "inject"
  /\ partials' = InjectPass(injectPos, partials, copyJSON)
  /\ injectPos' = injectPos + 1
  /\ IF injectPos = InjectLength
     THEN pc' = "pages" /\ ran' = Append(ran, "inject")
     ELSE pc' = pc /\ ran' = ran
  /\ UNCHANGED <<navVars, runVars, cssVars, hashedCssFile, publicCss, copyJSON, srcDir,
                 publicAssets, publicRoot, sitemapXml, robotsTxt, linkWarnings>>

\* 4. fs.readdirSync(SRC_DIR).forEach(...)
BuildPages ==
  /\ pc = "pages"
  /\ publicRoot' = [f \in Range(Filter(ReadDir(DOMAIN srcDir), ".html")) |->
                      BuildPage(srcDir[f], partials, hashedCssFile)]
  /\ ran' = Append(ran, "pages")
  /\ pc' = "sitemap"
  /\ UNCHANGED <<navVars, runVars, cssVars, hashedCssFile, publicCss, copyJSON, partials,
                 injectPos, srcDir, publicAssets, sitemapXml, robotsTxt,
                 linkWarnings>>

\* 5. sitemap.xml
GenerateSitemap ==
  /\ pc = "sitemap"
  /\ sitemapXml' = SitemapXml(Filter(ReadDir(PublicEntries), ".html"))
  /\ ran' = Append(ran, "sitemap")
  /\ pc' = "robots"
  /\ UNCHANGED <<navVars, runVars, cssVars, hashedCssFile, publicCss, copyJSON, partials,
                 injectPos, srcDir, publicAssets, publicRoot, robotsTxt,
                 linkWarnings>>

\* 6. robots.txt
GenerateRobots ==
  /\ pc = "robots"
  /\ robotsTxt' = <<[allow |-> <<"/">>],
                    [sitemap |-> [base |-> BASE_URL,
                                  route |-> <<"/", "sitemap.xml">>]]>>
  /\ ran' = Append(ran, "robots")
  /\ pc' = "validate"
  /\ UNCHANGED <<navVars, runVars, cssVars, hashedCssFile, publicCss, copyJSON, partials,
                 injectPos, srcDir, publicAssets, publicRoot, sitemapXml,
                 linkWarnings>>

\* 7. validateLinks(PUBLIC_DIR)
validateLinks ==
  LET htmlFiles == Filter(ReadDir(PublicEntries), ".html")
  IN Flatten([i \in 1..Len(htmlFiles) |->
                ScanFile(publicRoot[htmlFiles[i]], 1, htmlFiles[i],
                         PublicEntries, publicAssets, DOMAIN publicCss)])

ValidateLinks ==
  /\ pc = "validate"
  /\ linkWarnings' = validateLinks
  /\ ran' = Append(ran, "validate")
  /\ pc' = "logsize"
  /\ UNCHANGED <<navVars, runVars, cssVars, hashedCssFile, publicCss, copyJSON, partials,
                 injectPos, srcDir, publicAssets, publicRoot, sitemapXml,
                 robotsTxt>>

\* 8. logFileSize(path.join(PUBLIC_DIR, "css", hashedCssFile)): fs.statSync
\* of a file that is not there throws.
LogFileSize ==
  /\ pc = "logsize"
  /\ IF hashedCssFile \in DOMAIN publicCss
     THEN pc' = "done" /\ ran' = Append(ran, "logsize")
     ELSE pc' = "aborted" /\ ran' = ran
  /\ UNCHANGED <<navVars, runVars, cssVars, hashedCssFile, publicCss, htmlVars>>

(***************************************************************************)
(* navToggle.js in the browser: the handlers initNavToggleOnClick          *)
(* registers on .nav-toggle and on every .nav-link, the callbacks they     *)
(* schedule, and the navigation these start.                               *)
(***************************************************************************)
buildVars == <<pc, cssVars, hashedCssFile, publicCss, ran, htmlVars, runVars>>

\* The href attributes of the .nav-link elements.
NavLinks == {"/about.html", "/#services"}

\* The document a URL is in: a fragment stays in its document.
DocumentOf(url) == IF url = "/about.html" THEN "/about.html" ELSE "/"

NoEvent == [type |-> "none", target |-> "none", defaultPrevented |-> FALSE]
Click(target, prevented) ==
  [type |-> "click", target |-> target, defaultPrevented |-> prevented]

\* classList.toggle("open"): the class is there afterwards iff it was not.
ClassToggle(has) == ~has

\* classList.toggle("open", force)
ClassToggleForce(has, force) == force

\* A remove that leaves the class where it is.
ClassRemoveNothing(has) == has

\* classList.remove("open")
ClassRemove(has) == FALSE

\* setAttribute("aria-expanded", value): the value is made a string.
AttributeValue(value) == IF value THEN "true" ELSE "false"

\* A document as it is loaded: the nav is closed, nothing is scheduled.
DocumentLoaded(url) ==
  /\ navOpen = FALSE
  /\ toggleOpen = FALSE
  /\ ariaExpanded = "false"
  /\ timers = <<>>
  /\ location = url
  /\ page = DocumentOf(url)
  /\ event = NoEvent

\* navToggle.addEventListener("click", ...)
ToggleClick ==
  /\ LET isOpen == ClassToggle(navOpen)
     IN /\ navOpen' = isOpen
        /\ toggleOpen' = ClassToggleForce(toggleOpen, isOpen)
        /\ ariaExpanded' = AttributeValue(isOpen)
  /\ event' = Click(".nav-toggle", FALSE)
  /\ UNCHANGED <<timers, location, page, buildVars>>

\* link.addEventListener("click", ...): with the nav open the click is
\* held back, the nav closed and the navigation scheduled; with the nav
\* closed the handler does nothing and the link is followed at once.
NavLinkClick ==
  \E href \in NavLinks :
    IF navOpen
    THEN /\ Len(timers) < MaxTimers
         /\ navOpen' = ClassRemove(navOpen)
         /\ toggleOpen' = ClassRemove(toggleOpen)
         /\ ariaExpanded' = AttributeValue(FALSE)
         /\ timers' = Append(timers, href)
         /\ event' = Click(href, TRUE)
         /\ UNCHANGED <<location, page, buildVars>>
    ELSE /\ location' = href
         /\ event' = Click(href, FALSE)
         /\ UNCHANGED <<navOpen, toggleOpen, ariaExpanded, timers, page,
                        buildVars>>

\* setTimeout(() => { window.location.href = href; }, 300): the callbacks
\* run in the order they were scheduled in.
TimerFires ==
  /\ timers # <<>>
  /\ location' = Head(timers)
  /\ timers' = Tail(timers)
  /\ event' = NoEvent
  /\ UNCHANGED <<navOpen, toggleOpen, ariaExpanded, page, buildVars>>

\* The navigation to another document is done: the old document, its
\* classes and its callbacks are gone, the new one is loaded.
PageLoad ==
  /\ DocumentOf(location) # page
  /\ navOpen' = FALSE
  /\ toggleOpen' = FALSE
  /\ ariaExpanded' = "false"
  /\ timers' = <<>>
  /\ page' = DocumentOf(location)
  /\ event' = NoEvent
  /\ UNCHANGED <<location, buildVars>>

(***************************************************************************)
(* The inputs of a run.                                                    *)
(***************************************************************************)
Times(unit(_), m) == Flatten([i \in 1..m |-> unit(i)])

CssRefs(c) == [i \in 1..c |-> Attr(CssRef)]

\* A section partial: its own placeholders and the comment its child is
\* embedded at, in one of three layouts.
Section(shape, name, own, embed) ==
  CASE shape = 1 -> <<Txt(name, 1)>> \o own \o <<Cm(embed)>>
    [] shape = 2 -> <<Txt(name, 1), Cm(embed)>> \o own
    [] shape = 3 -> <<Txt(name, 1), Cm(embed)>>

TitleDescription(name) ==
  <<Mk("{{TITLE}}", name), Mk("{{DESCRIPTION}}", name)>>

\* The partial files: m occurrences of each repeated placeholder, c1 and c2
\* references to the unhashed bundle in head.html and footer.html.
Partials(m, shape, c1, c2) ==
  LET navItem(i) == <<Txt("headerHTML", i), Mk("{{DESTINATION}}", "headerHTML"),
                      Mk("{{LABEL}}", "headerHTML")>>
      amount(i) == <<Txt("invoices", i), Mk("{{AMOUNT}}", "invoices")>>
      step(i) == <<Txt("steps", i)>> \o TitleDescription("steps")
      service(i) == <<Txt("services", i)>> \o TitleDescription("services")
  IN [head |-> <<Txt("head", 1)>> \o CssRefs(c1),
      headerHTML |-> Times(navItem, m),
      heroSection |-> Section(shape, "heroSection",
                              TitleDescription("heroSection")
                                \o <<Mk("{{CTA}}", "heroSection")>>,
                              "<!-- INVOICES -->"),
      invoices |-> <<Txt("invoices", 0), Mk("{{LABEL}}", "invoices")>>
                     \o Times(amount, m)
                     \o <<Mk("{{LABEL}}", "invoices")>>,
      aboutSection |-> Section(shape, "aboutSection",
                               TitleDescription("aboutSection"), "<!-- STEPS -->"),
      steps |-> <<Txt("steps", 0)>> \o Times(step, m),
      servicesSection |-> Section(shape, "servicesSection",
                                  TitleDescription("servicesSection"),
                                  "<!-- SERVICES -->"),
      services |-> <<Txt("services", 0)>> \o Times(service, m),
      contactSection |-> Section(shape, "contactSection",
                                 TitleDescription("contactSection"),
                                 "<!-- CONTACT FORM -->"),
      contactForm |-> <<Txt("contactForm", 1)>>,
      footerHTML |-> <<Txt("footerHTML", 1)>> \o CssRefs(c2)]

SpecialKinds == {"plain", "$$", "$&"}

\* One text of copy.json: plain, or with "$$" in front, or just "$&".
Text(kind, f, i) ==
  CASE kind = "plain" -> <<Val(f, i)>>
    [] kind = "$$"    -> <<Chr("$"), Chr("$"), Val(f, i)>>
    [] kind = "$&"    -> <<Chr("$"), Chr("&")>>

\* copy.json with lists of n entries; special[i] is the kind of the first
\* text of entry i of every list.
CopyJson(n, special) ==
  [header |-> [nav |-> [i \in 1..n |->
                 [label |-> Text(special[i], "nav.label", i),
                  link |-> <<Val("nav.link", i)>>]]],
   hero |-> [title |-> <<Val("hero.title", 0)>>,
             description |-> <<Val("hero.description", 0)>>,
             cta |-> <<Val("hero.cta", 0)>>],
   invoices |-> [label |-> <<Val("invoices.label", 0)>>,
                 amounts |-> [i \in 1..n |->
                                Text(special[i], "invoices.amount", i)]],
   about |-> [title |-> <<Val("about.title", 0)>>,
              description |-> <<Val("about.description", 0)>>,
              steps |-> [i \in 1..n |->
                 [title |-> Text(special[i], "about.steps.title", i),
                  description |-> <<Val("about.steps.description", i)>>]]],
   services |-> [title |-> <<Val("services.title", 0)>>,
                 description |-> <<Val("services.description", 0)>>,
                 list |-> [i \in 1..n |->
                    [title |-> Text(special[i], "services.list.title", i),
                     description |-> <<Val("services.list.description", i)>>]]],
   contact |-> [title |-> <<Val("contact.title", 0)>>,
                description |-> <<Val("contact.description", 0)>>]]

\* The href/src values a page shell is given.
Links ==
  {<<"http", "s", ":", "//", "example.com">>,
   <<"//", "cdn.example.com", "/", "x.js">>,
   <<"#", "section">>,
   <<"/", "missing.html">>,
   <<"/", "index.html">>,
   <<"/">>,
   <<"/", "missing.html", "?", "v=1", "#", "top">>,
   <<"/", "index.html", "#", "top">>,
   <<"mailto", ":", "hi@fedrev.co">>,
   <<"/", "public", "/", "js", "/", "index.js">>}

\* A page shell: the marker comments (the head marker when h = 1), c0
\* references to the unhashed bundle, and the attributes with the links.
Shell(h, c0, links) ==
  (IF h = 1 THEN <<Cm("<!-- HEAD -->"), Ws>> ELSE <<>>)
    \o CssRefs(c0)
    \o <<Cm("<!-- HEADER -->"), Ws, Cm("<!-- HERO SECTION -->"), Ws,
         Cm("<!-- ABOUT SECTION -->"), Ws, Cm("<!-- SERVICES SECTION -->"),
         Ws, Cm("<!-- CONTACT SECTION -->"), Ws, Cm("<!-- FOOTER -->"), Ws>>
    \o [i \in 1..Len(links) |-> Attr(links[i])]

SrcFiles == {"index.html", "about.html", ".html", "notes.txt"}

\* src: the two directories, and the files named; index.html carries the
\* links.
SrcDir(names, h, c0, links) ==
  [n \in names \cup {"assets", "partials"} |->
     IF ExtName(n) = ".html"
     THEN Shell(h, c0, IF n = "index.html" THEN links ELSE <<>>)
     ELSE <<>>]

DefaultJson == CopyJson(MaxList, [i \in 1..MaxList |-> "plain"])
DefaultPartials == Partials(MaxMarkers, 1, 1, 0)
DefaultSrc == SrcDir({"index.html", "about.html", "notes.txt"}, 1, 0, <<>>)

InitBuild(fs, J, P, dir) ==
  /\ pc = "css"
  /\ cssFs = fs
  /\ seen = {}
  /\ stack = <<>>
  /\ cssWarnings = <<>>
  /\ cssSteps = 0
  /\ bundledCss = <<>>
  /\ hashedCssFile = NoName
  /\ publicCss = EmptyFn
  /\ ran = <<>>
  /\ copyJSON = J
  /\ partials = P
  /\ injectPos = 1
  /\ srcDir = dir
  /\ publicAssets = {}
  /\ publicRoot = EmptyFn
  /\ sitemapXml = <<>>
  /\ robotsTxt = <<>>
  /\ linkWarnings = <<>>
  /\ previousCss = EmptyFn
  /\ previousName = NoName
  /\ DocumentLoaded("/")

InitCSS ==
  \E fs \in CssInputs : InitBuild(fs, DefaultJson, DefaultPartials, DefaultSrc)

InitInject ==
  \E n \in 0..MaxList, m \in 0..MaxMarkers, shape \in 1..3 :
    \E special \in [1..n -> SpecialKinds] :
      InitBuild(DefaultCss, CopyJson(n, special), Partials(m, shape, 1, 0),
                DefaultSrc)

InitPages ==
  \E names \in SUBSET SrcFiles, h \in 0..1 :
    \E c0 \in 0..MaxRefs, c1 \in 0..MaxRefs, c2 \in 0..MaxRefs :
      InitBuild(DefaultCss, DefaultJson, Partials(MaxMarkers, 1, c1, c2),
                SrcDir(names, h, c0, <<>>))

InitLinks ==
  \E links \in SeqsUpTo(Links, MaxLinks) :
    InitBuild(DefaultCss, DefaultJson, DefaultPartials,
              SrcDir({"index.html", "about.html"}, 1, 0, links))

\* The characters main.css is written in when the build is run twice.
CssChars == {"a", " ", ";", "}", "/", "*"}

\* main.css: some characters of its own, then the imports of a.css and of
\* a file that is not there; a.css imports itself.
InitHash ==
  \E css \in SeqsUpTo(CssChars, MaxBytes) :
    InitBuild(MakeFs(css \o <<"@import 'a.css';", "@import 'c.css';">>,
                     <<"@import 'a.css';">>, Missing),
              DefaultJson, DefaultPartials, DefaultSrc)

\* The texts that differ from css in exactly one character outside the
\* @import statements.
OneByteChanges(css) ==
  {[css EXCEPT ![i] = c] : i \in {j \in DOMAIN css : ~IsImport(css[j])},
                           c \in CssChars} \ {css}

\* The script is run a second time, on the same sources or with one byte of
\* main.css changed: the public folder is removed and every step starts
\* over.
RunAgain ==
  /\ pc = "done"
  /\ previousName = NoName
  /\ \E css \in {cssFs[InputPath]} \cup OneByteChanges(cssFs[InputPath]) :
       cssFs' = [cssFs EXCEPT ![InputPath] = css]
  /\ previousCss' = cssFs
  /\ previousName' = hashedCssFile
  /\ pc' = "css"
  /\ seen' = {}
  /\ stack' = <<>>
  /\ cssWarnings' = <<>>
  /\ cssSteps' = 0
  /\ bundledCss' = <<>>
  /\ hashedCssFile' = NoName
  /\ publicCss' = EmptyFn
  /\ ran' = <<>>
  /\ partials' = DefaultPartials
  /\ injectPos' = 1
  /\ publicAssets' = {}
  /\ publicRoot' = EmptyFn
  /\ sitemapXml' = <<>>
  /\ robotsTxt' = <<>>
  /\ linkWarnings' = <<>>
  /\ UNCHANGED <<navVars, copyJSON, srcDir>>

Next ==
  \/ CompileStart
  \/ InlineText
  \/ InlineImportMissing
  \/ InlineImportSeen
  \/ InlineImportRecurse
  \/ InlineReturn
  \/ CompileFinish
  \/ CopyAssets
  \/ InjectStep
  \/ BuildPages
  \/ GenerateSitemap
  \/ GenerateRobots
  \/ ValidateLinks
  \/ LogFileSize

SpecCSS == InitCSS /\ [][Next]_vars
SpecInject == InitInject /\ [][Next]_vars
SpecPages == InitPages /\ [][Next]_vars
SpecLinks == InitLinks /\ [][Next]_vars

\* The page in the browser.
InitNav == InitBuild(DefaultCss, DefaultJson, DefaultPartials, DefaultSrc)
NextNav == ToggleClick \/ NavLinkClick \/ TimerFires \/ PageLoad
SpecNav == InitNav /\ [][NextNav]_vars

\* Two runs of the build in a row.
NextHash == Next \/ RunAgain
SpecHash == InitHash /\ [][NextHash]_vars

(***************************************************************************)
(* Properties of the CSS bundler.                                          *)
(***************************************************************************)
Bundled == "css" \in Range(ran)
EntryExists == InputPath \in DOMAIN cssFs


\* The resolved paths the file p imports.
ImportsOf(p) ==
  {ResolvePath(p, ImportPath(cssFs[p][i])) :
     i \in {j \in DOMAIN cssFs[p] : IsImport(cssFs[p][j])}}

RECURSIVE ReachFrom(_)
ReachFrom(S) ==
  LET more == S \cup UNION {ImportsOf(p) \cap DOMAIN cssFs : p \in S}
  IN IF more = S THEN S ELSE ReachFrom(more)

\* The files of the import graph of the entry file.
Graph == IF EntryExists THEN ReachFrom({InputPath}) ELSE {}

OnCycle(p) == p \in ReachFrom(ImportsOf(p) \cap DOMAIN cssFs)
Cyclic == \E p \in Graph : OnCycle(p)
AllPresent == \A p \in Graph : ImportsOf(p) \subseteq DOMAIN cssFs
MissingImports == UNION {ImportsOf(p) \ DOMAIN cssFs : p \in Graph}

\* Depth-first traversal with a visited set: st is [seen, out], the walk
\* is at token i of file p.
RECURSIVE DepthFirstFrom(_, _, _)
DepthFirstFrom(p, i, st) ==
  IF i > Len(cssFs[p]) THEN st
  ELSE LET tok == cssFs[p][i]
           q == ResolvePath(p, ImportPath(tok))
       IN IF ~IsImport(tok)
          THEN DepthFirstFrom(p, i + 1, [st EXCEPT !.out = Append(@, tok)])
          ELSE IF q \in st.seen \/ q \notin DOMAIN cssFs
          THEN DepthFirstFrom(p, i + 1, st)
          ELSE DepthFirstFrom(p, i + 1,
                 DepthFirstFrom(q, 1, [st EXCEPT !.seen = @ \cup {q}]))

DepthFirst == DepthFirstFrom(InputPath, 1, [seen |-> {InputPath}, out |-> <<>>]).out

\* Each file of the import graph contributes its own text once, the files
\* outside it nothing.
OncePerFile(text) ==
  \A p \in CssPaths :
    Count(TextOf(p), text) =
      IF p \in Graph THEN Count(TextOf(p), cssFs[p]) ELSE 0

\* C3: for an import graph without a cycle and with every imported file
\* present, the bundle inlineCSS returns holds the text of each file of the
\* graph exactly once, in depth-first encounter order, and no @import of a
\* file met before adds anything.
C3_AcyclicBundle ==
  (Bundled /\ ~Cyclic /\ AllPresent) =>
    /\ bundledCss = DepthFirst
    /\ OncePerFile(bundledCss)
    /\ \A i \in DOMAIN bundledCss : ~IsImport(bundledCss[i])

\* A diamond: every file is in the graph and some file is imported twice.
C3_Witness ==
  /\ Bundled /\ ~Cyclic /\ AllPresent
  /\ Graph = CssPaths
  /\ Len(bundledCss) >= 2
  /\ \E p \in Graph, q \in Graph : p # q /\ ImportsOf(p) \cap ImportsOf(q) # {}

\* The steps inlineCSS can take when every file is entered at most once:
\* the call, one per token, one return per file.
StepBudget ==
  1 + Cardinality(DOMAIN cssFs)
    + Cardinality(UNION {{<<p, i>> : i \in DOMAIN cssFs[p]} : p \in DOMAIN cssFs})

\* Text gathered so far, in the frames and in the result.
Gathered == Flatten([i \in 1..Len(stack) |-> stack[i].out]) \o bundledCss

\* C4: for an import graph with a cycle, inlineCSS terminates (it is never
\* stuck, and takes no more steps than entering each file once allows), and
\* no file's text is in the bundle more often than in the file itself.
C4_CyclicTerminates ==
  /\ pc = "aborted" => ~EntryExists
  /\ (pc \in {"inline", "copy"} /\ Cyclic) =>
       /\ cssSteps <= StepBudget
       /\ pc = "inline" => (ENABLED InlineNext \/ InlineDone)
       /\ \A p \in DOMAIN cssFs :
            Count(TextOf(p), Gathered) <= Count(TextOf(p), cssFs[p])
       /\ pc = "copy" => Bundled /\ OncePerFile(bundledCss)

\* A cycle was walked and the bundle is there.
C4_Witness ==
  /\ Bundled /\ Cyclic
  /\ \E p \in seen : OnCycle(p) /\ Count(TextOf(p), bundledCss) = 1
  /\ Cardinality(seen) >= 2

AllSteps == <<"css", "copy", "inject", "pages", "sitemap", "robots",
              "validate", "logsize">>

\* C5: an @import of a file that does not exist gives a warning and empty
\* content, and the build goes on: the hashed bundle is written and every
\* later step runs.  Only a missing entry file ends the run.
C5_MissingImportRecoverable ==
  /\ pc = "aborted" => ~EntryExists
  /\ (pc \in {"inline", "copy"} /\ MissingImports # {}) =>
       /\ pc = "inline" => (ENABLED InlineNext \/ InlineDone)
       /\ pc = "copy" => /\ Bundled
                         /\ MissingImports \subseteq Range(cssWarnings)
                         /\ OncePerFile(bundledCss)
                         /\ hashedCssFile \in DOMAIN publicCss
                         /\ publicCss[hashedCssFile] = minifyCSS(bundledCss)
  /\ pc = "done" => ran = AllSteps

\* A run that met a missing import, warned, and went through every step.
C5_Witness ==
  /\ pc = "done" /\ cssWarnings # <<>> /\ MissingImports # {}
  /\ bundledCss # <<>> /\ ran = AllSteps

(***************************************************************************)
(* Properties of validateLinks.                                            *)
(***************************************************************************)
Validated == "validate" \in Range(ran)

\* scheme ":" at the front of a reference: letters, then a colon
SchemeWords == {"http", "s", "mailto"}
HasScheme(link) ==
  \E i \in 2..Len(link) :
    link[i] = ":" /\ \A j \in 1..(i - 1) : link[j] \in SchemeWords

IsAbsolute(link) == link # <<>> /\ (link[1] = "//" \/ HasScheme(link))
IsFragmentOnly(link) == link # <<>> /\ link[1] = "#"

TargetMissing(link) ==
  ~ExistsInPublic(TargetPath(link), PublicEntries, publicAssets)

Warned(file, tok) == [file |-> file, tok |-> tok] \in Range(linkWarnings)

\* C1: once validateLinks has run, every href/src value of every produced
\* page that is not absolute and whose target (query string and fragment
\* stripped, a trailing slash completed to index.html) is no file of the
\* output has a broken-link warning, wherever in the page it stands.
C1_ValidatorComplete ==
  Validated =>
    \A f \in DOMAIN publicRoot : \A i \in DOMAIN publicRoot[f] :
      LET tok == publicRoot[f][i]
      IN (tok.k = "attr" /\ ~IsAbsolute(tok.link) /\ TargetMissing(tok.link))
           => Warned(f, tok)

\* C2: validateLinks never warns about a reference that is absolute (a URL
\* scheme or // in front) or that is only a fragment; what it warns about
\* is a relative reference whose target is no file of the output.
C2_ValidatorSound ==
  \A i \in DOMAIN linkWarnings :
    LET tok == linkWarnings[i].tok
    IN tok.k = "attr" =>
         /\ ~IsAbsolute(tok.link)
         /\ ~IsFragmentOnly(tok.link)
         /\ TargetMissing(tok.link)

(***************************************************************************)
(* Properties of injectDynamicContent.                                     *)
(***************************************************************************)
\* The fragment with its k-th occurrence of the marker replaced by the k-th
\* value, character for character; occurrences past the last value stay.
RECURSIVE Fill(_, _, _)
Fill(frag, name, values) ==
  IF frag = <<>> THEN <<>>
  ELSE IF IsMarker(Head(frag), name) /\ values # <<>>
       THEN Head(values) \o Fill(Tail(frag), name, Tail(values))
       ELSE <<Head(frag)>> \o Fill(Tail(frag), name, values)

RECURSIVE Occurrences(_, _)
Occurrences(frag, name) ==
  IF frag = <<>> THEN 0
  ELSE (IF IsMarker(Head(frag), name) THEN 1 ELSE 0)
       + Occurrences(Tail(frag), name)

Field(list, f) == [i \in 1..Len(list) |-> list[i][f]]

\* What a list pass has to make of a fragment, and nothing left over when
\* the list is as long as the marker occurs often.
Filled(before, after, name, values) ==
  /\ after = Fill(before, name, values)
  /\ Len(values) = Occurrences(before, name) => Occurrences(after, name) = 0

\* C6: a list pass of injectDynamicContent (nav label/link pairs, invoice
\* amounts, steps, services) over a list of n entries and a fragment with m
\* occurrences of the marker replaces the k-th occurrence by the k-th
\* entry's value for every k <= min(n, m), in list order; entries past m are
\* dropped, occurrences past n stay, and for n = m no marker remains.
C6_ListSubstitution ==
  [][(pc = "inject" /\ injectPos' = injectPos + 1) =>
       /\ injectPos = 1 =>
            \E mid \in {Fill(partials.headerHTML, "{{LABEL}}",
                             Field(copyJSON.header.nav, "label"))} :
              /\ Filled(partials.headerHTML, mid, "{{LABEL}}",
                        Field(copyJSON.header.nav, "label"))
              /\ Filled(mid, partials'.headerHTML, "{{DESTINATION}}",
                        Field(copyJSON.header.nav, "link"))
       /\ injectPos = 3 =>
            Filled(ReplaceAll(partials.invoices, "{{LABEL}}",
                              copyJSON.invoices.label),
                   partials'.invoices, "{{AMOUNT}}", copyJSON.invoices.amounts)
       /\ injectPos = 6 =>
            \E mid \in {Fill(partials.steps, "{{TITLE}}",
                             Field(copyJSON.about.steps, "title"))} :
              /\ Filled(partials.steps, mid, "{{TITLE}}",
                        Field(copyJSON.about.steps, "title"))
              /\ Filled(mid, partials'.steps, "{{DESCRIPTION}}",
                        Field(copyJSON.about.steps, "description"))
       /\ injectPos = 9 =>
            \E mid \in {Fill(partials.services, "{{TITLE}}",
                             Field(copyJSON.services.list, "title"))} :
              /\ Filled(partials.services, mid, "{{TITLE}}",
                        Field(copyJSON.services.list, "title"))
              /\ Filled(mid, partials'.services, "{{DESCRIPTION}}",
                        Field(copyJSON.services.list, "description"))
    ]_vars

\* The fragments embedded by injectDynamicContent.
Embeddings ==
  {[parent |-> "heroSection", child |-> "invoices"],
   [parent |-> "aboutSection", child |-> "steps"],
   [parent |-> "servicesSection", child |-> "services"],
   [parent |-> "contactSection", child |-> "contactForm"]}

\* The tokens of a fragment that were written in the partial file `child`.
FromChild(frag, child) ==
  {i \in DOMAIN frag : frag[i].k \in {"txt", "mk"} /\ frag[i].of = child}

Embedded(e) == FromChild(partials[e.parent], e.child) # {}

ChildMarkers(frag, child) ==
  Cardinality({i \in FromChild(frag, child) : frag[i].k = "mk"})

\* C10: once a child fragment (invoices, steps, services, contactForm) is
\* embedded in its parent, no pass changes the child any more (all of its
\* own replacements came before the embedding) and no pass changes the
\* parent any more, so no marker the child brought along is ever consumed
\* by a pass on the parent.
C10_ChildResolvedBeforeEmbedding ==
  [][\A e \in Embeddings :
       Embedded(e) =>
         /\ partials'[e.child] = partials[e.child]
         /\ partials'[e.parent] = partials[e.parent]
         /\ ChildMarkers(partials'[e.parent], e.child)
              = ChildMarkers(partials[e.parent], e.child)]_vars

\* The steps were embedded with a {{TITLE}} left over (the list was shorter
\* than the markers), behind the about section's own, resolved, title.
C10_Witness ==
  /\ "inject" \in Range(ran)
  /\ Mk("{{TITLE}}", "steps") \in Range(partials.aboutSection)
  /\ Val("about.title", 0) \in Range(partials.aboutSection)
  /\ Mk("{{TITLE}}", "aboutSection") \notin Range(partials.aboutSection)

(***************************************************************************)
(* Properties of the pages and of the sitemap.                             *)
(***************************************************************************)
PagesBuilt == "pages" \in Range(ran)

\* The /css/bundle.css references of the sources page `file` is built of:
\* its shell and the partials merged in that hold any.
References(file) ==
  Count(Attr(CssRef), srcDir[file])
    + (IF IndexOf(srcDir[file], "<!-- HEAD -->") # 0
       THEN Count(Attr(CssRef), partials.head) ELSE 0)
    + (IF IndexOf(srcDir[file], "<!-- FOOTER -->") # 0
       THEN Count(Attr(CssRef), partials.footerHTML) ELSE 0)

\* C7: in every page written to the output root the unhashed reference
\* /css/bundle.css has been rewritten to the hashed file name the bundler
\* returned: the page has exactly one link to the hashed bundle, and no
\* unhashed reference is left in it.
C7_CssLinkRewritten ==
  PagesBuilt =>
    \A file \in DOMAIN publicRoot :
      References(file) >= 1 =>
        /\ Count(CssLink(hashedCssFile), publicRoot[file]) = 1
        /\ Count(Attr(CssRef), publicRoot[file]) = 0

SitemapWritten == "sitemap" \in Range(ran)

\* The <loc> the sitemap has to give a page.
LocOf(file) ==
  [base |-> "https://fedrev.co",
   route |-> IF file = "index.html" THEN <<"/">> ELSE <<"/", file>>]

\* C9: the sitemap has exactly one <url><loc> entry per .html file of the
\* output root, no more and no fewer; index.html is given the root path /
\* and every other page /<filename>, under the base URL.
C9_SitemapOnePerPage ==
  SitemapWritten =>
    /\ \A file \in DOMAIN publicRoot :
         Count([loc |-> LocOf(file)], sitemapXml) = 1
    /\ Len(sitemapXml) = Cardinality(DOMAIN publicRoot)
    /\ \A name \in PublicEntries :
         name \notin DOMAIN publicRoot =>
           \A i \in DOMAIN sitemapXml : sitemapXml[i].loc.route # <<"/", name>>

\* Both pages were built, next to entries of src that are no pages, and the
\* sitemap lists them.
C9_Witness ==
  /\ SitemapWritten
  /\ DOMAIN publicRoot = {"index.html", "about.html"}
  /\ {".html", "notes.txt"} \subseteq DOMAIN srcDir
  /\ Len(sitemapXml) = 2

(***************************************************************************)
(* Properties of the hashed file name, over two runs of the build.         *)
(***************************************************************************)
SecondRunBundled == previousName # NoName /\ Bundled

\* The characters of a file outside its @import statements.
RECURSIVE OwnText(_)
OwnText(css) ==
  IF css = <<>> THEN <<>>
  ELSE (IF IsImport(Head(css)) THEN <<>> ELSE <<Head(css)>>)
       \o OwnText(Tail(css))

SameInput == cssFs = previousCss

\* The two versions of main.css differ in exactly one character.
OneByteApart ==
  /\ previousCss # EmptyFn
  /\ Len(cssFs[InputPath]) = Len(previousCss[InputPath])
  /\ Cardinality({i \in DOMAIN cssFs[InputPath] :
                    cssFs[InputPath][i] # previousCss[InputPath][i]}) = 1

\* C8, as stated: changing one byte of the CSS input changes the hashed
\* file name, and identical input yields the identical name.
C8_OneByteChangesName ==
  SecondRunBundled =>
    /\ SameInput => hashedCssFile = previousName
    /\ OneByteApart => hashedCssFile # previousName

\* C8, amended: identical input yields the identical hashed file name, and
\* a changed input yields another name exactly when its minified bundle is
\* another one (the digest taken as free of collisions); the name is the
\* one of the file written to public/css.
C8_NameFollowsMinifiedBundle ==
  SecondRunBundled =>
    /\ SameInput => hashedCssFile = previousName
    /\ (hashedCssFile = previousName)
         <=> (minifyCSS(OwnText(cssFs[InputPath]))
                = minifyCSS(OwnText(previousCss[InputPath])))
    /\ hashedCssFile \in DOMAIN publicCss

\* One byte of main.css was changed between the runs and the name stayed.
C8_Witness ==
  /\ SecondRunBundled
  /\ OneByteApart
  /\ hashedCssFile = previousName
  /\ \E other \in OneByteChanges(previousCss[InputPath]) :
       HashedName(other) # previousName

(***************************************************************************)
(* Properties of the nav toggle.                                           *)
(***************************************************************************)
NavConsistent ==
  /\ navOpen <=> toggleOpen
  /\ toggleOpen <=> (ariaExpanded = "true")

\* C11: from the closed state, whatever .nav-toggle and .nav-link clicks
\* follow, .nav has the class open iff .nav-toggle has it iff
\* aria-expanded is "true"; and a click on a nav link while the nav is open
\* leaves the nav closed and schedules exactly one delayed navigation, to
\* that link's href (nothing is navigated to at once).
C11_NavToggleConsistent ==
  [][/\ NavConsistent
     /\ NavConsistent'
     /\ (navOpen /\ event'.type = "click" /\ event'.target \in NavLinks) =>
          /\ ~navOpen'
          /\ timers' = Append(timers, event'.target)
          /\ event'.defaultPrevented
          /\ location' = location]_vars

\* The nav was opened twice and closed by a link click each time: both
\* navigations are waiting.
C11_Witness ==
  /\ event.type = "click" /\ event.target \in NavLinks
  /\ event.defaultPrevented
  /\ ~navOpen /\ ~toggleOpen /\ ariaExpanded = "false"
  /\ Len(timers) = 2

====
